---------------------------- MODULE Spec2Model ----------------------------
(***************************************************************************)
(* A model of the telecom dashboard pipeline (src/dashboard.py): column    *)
(* normalisation, resampling, cascading filters, risk detection, the      *)
(* filtered tables and the colour banding of the export and the styler.    *)
(*                                                                         *)
(* The Streamlit script is run from top to bottom when the session opens   *)
(* and again on every widget interaction.  The persistent state is the two *)
(* cached base tables and the widget values; every action of the page is   *)
(* the first run, or one interaction followed by the complete re-run, and  *)
(* the script-level variables of the run are recorded in the state under   *)
(* the names the script gives them.                                        *)
(*                                                                         *)
(* The older variant src/new.py is modelled further down, as a script of   *)
(* its own over the same state.                                            *)
(***************************************************************************)
EXTENDS Integers, Sequences, FiniteSets, TLC

(***************************************************************************)
(* Cell values.  A pandas cell is missing (NaN / NaT / pd.NA / None), a    *)
(* number, a string or a timestamp.  Numbers are exact rationals n/d in    *)
(* lowest terms, so that means of means are computed, not approximated.    *)
(***************************************************************************)
NaN == [k |-> "nan"]

Range(s) == {s[i] : i \in DOMAIN s}

Str(s) == [k |-> "str", s |-> s]

Ts(day, tod) == [k |-> "ts", day |-> day, tod |-> tod]

RECURSIVE GCD(_, _)
GCD(a, b) == IF b = 0 THEN a ELSE GCD(b, a % b)

Abs(n) == IF n < 0 THEN -n ELSE n

Num(n, d) ==
    LET g == GCD(Abs(n), d)
    IN  [k |-> "num", n |-> n \div g, d |-> d \div g]

Whole(n) == Num(n, 1)

isna(v) == v = NaN

notna(v) == v # NaN

QAdd(a, b) == Num(a.n * b.d + b.n * a.d, a.d * b.d)

QDiv(a, c) == Num(a.n, a.d * c)

QLt(a, b) == a.n * b.d < b.n * a.d

\* the sum of a list of numbers, halving the list
RECURSIVE SumSeq(_)
SumSeq(s) ==
    IF s = <<>> THEN Whole(0)
    ELSE IF Len(s) = 1 THEN s[1]
    ELSE QAdd(SumSeq(SubSeq(s, 1, Len(s) \div 2)),
              SumSeq(SubSeq(s, (Len(s) \div 2) + 1, Len(s))))

\* a mean that counts a missing entry as 0 (what C10 rules out)
mean_zero_filled(s) ==
    IF s = <<>> THEN NaN
    ELSE QDiv(SumSeq(SelectSeq(s, notna)), Len(s))

\* Series.mean / DataFrame.mean(axis=1): missing entries are skipped, and
\* the mean of nothing is missing.
mean(s) ==
    LET present == SelectSeq(s, notna)
    IN  IF present = <<>> THEN NaN ELSE QDiv(SumSeq(present), Len(present))

\* a count of the entries in place of their sum (what C9 rules out)
size(s) == Whole(Len(s))

\* Series.sum: missing entries are skipped, and the sum of nothing is 0.
sum(s) == SumSeq(SelectSeq(s, notna))

MinSeq(s) == CHOOSE m \in Range(s) : \A v \in Range(s) : ~QLt(v, m)

MaxSeq(s) == CHOOSE m \in Range(s) : \A v \in Range(s) : ~QLt(m, v)

\* DataFrame.min(axis=1) / max(axis=1): skip missing, missing when all are.
min(s) ==
    LET present == SelectSeq(s, notna)
    IN  IF present = <<>> THEN NaN ELSE MinSeq(present)

max(s) ==
    LET present == SelectSeq(s, notna)
    IN  IF present = <<>> THEN NaN ELSE MaxSeq(present)

\* A comparison with a missing operand is False (NaN < 100, NaN > 20,
\* NaN >= 75, NaN <= 5).
lt(a, b) == notna(a) /\ notna(b) /\ QLt(a, b)

ge(a, b) == notna(a) /\ notna(b) /\ ~QLt(a, b)

\* >= in place of > (what C8 rules out at the threshold itself)
at_least(a, b) == notna(a) /\ notna(b) /\ ~QLt(a, b)

gt(a, b) == lt(b, a)

\* < in place of <= (what C6 rules out at the threshold itself)
strictly_below(a, b) == notna(a) /\ notna(b) /\ QLt(a, b)

le(a, b) == ge(b, a)

\* a fill that takes a missing value for 0 whatever the default (what C7
\* rules out)
fillna_zero(v, dflt) == IF isna(v) THEN Whole(0) ELSE v

fillna(v, dflt) == IF isna(v) THEN dflt ELSE v

(***************************************************************************)
(* Data frames: an ordered list of column labels and a list of rows, each  *)
(* row a function from the labels to cells.                                *)
(***************************************************************************)
DataFrame(columns, rows) == [columns |-> columns, rows |-> rows]

HasCol(df, c) == c \in Range(df.columns)

Map(s, F(_)) == [i \in DOMAIN s |-> F(s[i])]

\* df[cols]
Project(df, cols) ==
    DataFrame(cols, Map(df.rows, LAMBDA r : [c \in Range(cols) |-> r[c]]))

\* df[c] = F(row): overwrite the column or append it.
Assign(df, c, F(_)) ==
    DataFrame(IF HasCol(df, c) THEN df.columns ELSE Append(df.columns, c),
              Map(df.rows, LAMBDA r :
                    [x \in Range(df.columns) \cup {c} |->
                        IF x = c THEN F(r) ELSE r[x]]))

\* df[mask]
Where(df, P(_)) == DataFrame(df.columns, SelectSeq(df.rows, P))

\* df[c] as a list of cells
Column(df, c) == Map(df.rows, LAMBDA r : r[c])

\* the cells of one row under the given labels, in label order
Cells(r, cols) == Map(cols, LAMBDA c : r[c])

\* Series.unique() as a set (its order is only ever consumed by sorted()).
Unique(s) == Range(s)

\* Series.dropna()
dropna(s) == SelectSeq(s, notna)

empty(df) == df.rows = <<>>

RECURSIVE drop_duplicates(_)
drop_duplicates(s) ==
    IF s = <<>> THEN <<>>
    ELSE LET rest == drop_duplicates(SubSeq(s, 1, Len(s) - 1))
             last == s[Len(s)]
         IN  IF last \in Range(rest) THEN rest ELSE Append(rest, last)

(***************************************************************************)
(* Text.  Two-digit formatting of the hour and minute grid, and the ISO    *)
(* rendering / parsing of calendar days.  Days are ordinals; day 1 is      *)
(* 2024-01-01 and days <= 0 fall in December 2023.                         *)
(***************************************************************************)
Digit == <<"0", "1", "2", "3", "4", "5", "6", "7", "8", "9">>

Fmt2(n) == Digit[(n \div 10) + 1] \o Digit[(n % 10) + 1]

Hours == 24

MinuteStep == 15

\* the ISO text of every day of December 2023 and January 2024
DateText ==
    [day \in -30..31 |->
        IF day >= 1 THEN "2024-01-" \o Fmt2(day) ELSE "2023-12-" \o Fmt2(31 + day)]

\* str(datetime.date)
DateStr(day) == DateText[day]

\* pd.to_datetime("YYYY-MM-DD"): midnight of the day the text names.
to_datetime(s) ==
    Ts(CHOOSE day \in DOMAIN DateText : DateText[day] = s, 0)

\* Series.dt.date
dt_date(ts) == ts.day

\* Series.dt.normalize(); NaT stays NaT
normalize(ts) == IF isna(ts) THEN NaN ELSE Ts(ts.day, 0)

(***************************************************************************)
(* The cached base tables and the widget state, then the script-level      *)
(* variables of the last run.                                              *)
(***************************************************************************)
VARIABLES
    df_perc,              \* file-arrival table, as load_csvs returned it
    df_delay,             \* delay table, as load_csvs returned it
    view_mode,            \* radio "View Mode"
    risk_prone_checkbox,  \* checkbox "Show Problematic Sites Only"
    selected_region,      \* selectbox "Select Region"
    selected_market,      \* selectbox "Select Market"
    selected_date,        \* selectbox "Select Date"
    gnodes_widget,        \* multiselect "Select gNodeB(s)", as the user left it
    filtered_markets,     \* options offered by the market selectbox
    filtered_dates,       \* options offered by the date selectbox
    filtered_gnodes,      \* options offered by the site multiselect
    risk_gnodes,          \* output of the risk detection (empty when not run)
    selected_gnodes,      \* the site set apply_filters uses
    sample_data,          \* arrival view of the chosen granularity
    delay_data,           \* delay view of the chosen granularity
    interval_cols,        \* active interval columns
    sample_filtered,      \* apply_filters(sample_data)
    delay_filtered,       \* apply_filters(delay_data)
    risk_region,          \* section 5: risk summed by region
    risk_market,          \* section 5: risk summed by market
    views,                \* the sections that rendered a chart or table
    notices,              \* the st.info notices of the run
    error,                \* the run raised before rendering
    script_ran,           \* the script has run at least once
    df_raw,               \* a CSV file as pd.read_csv returned it
    df_normalized,        \* normalize_cols(df_raw)
    df_renormalized,      \* normalize_cols(normalize_cols(df_raw))
    pivot,                \* the cells of a pivot matrix handed to both colourings
    excel,                \* df_to_excel_with_colors(pivot, mode): the cells' formats
    styled,               \* apply_heatmap_style(pivot, mode): the cells' CSS
    selected_enode,       \* new.py: selectbox "Select Enode/GNodeB"
    pie_data              \* new.py: the market table behind the two pies

widgets ==
    <<view_mode, risk_prone_checkbox, selected_region, selected_market,
      selected_date, gnodes_widget>>

outputs ==
    <<filtered_markets, filtered_dates, filtered_gnodes, risk_gnodes,
      selected_gnodes, sample_data, delay_data, interval_cols,
      sample_filtered, delay_filtered, risk_region, risk_market, views,
      notices, error, script_ran>>

\* the normaliser and the two colourings, taken on their own
bench ==
    <<df_raw, df_normalized, df_renormalized, pivot, excel, styled,
      selected_enode, pie_data>>

vars == <<df_perc, df_delay, widgets, outputs, bench>>

\* a value that has not been computed
Unset == [k |-> "unset"]

BenchIdle ==
    /\ df_raw = Unset /\ df_normalized = Unset /\ df_renormalized = Unset
    /\ pivot = <<>> /\ excel = Unset /\ styled = Unset
    /\ selected_enode = Unset /\ pie_data = Unset

(***************************************************************************)
(* Resampling.                                                             *)
(***************************************************************************)
metadata_cols == {"region", "market", "gNodeB", "filedate", "risk"}

original_interval_cols ==
    SelectSeq(df_perc.columns, LAMBDA c : c \notin metadata_cols)

HourKeys == [h \in 1..Hours |-> Fmt2(h - 1)]

HOUR_MAP ==
    [hk \in Range(HourKeys) |->
        [i \in 1..(60 \div MinuteStep) |-> hk \o ":" \o Fmt2((i - 1) * MinuteStep)]]

IdentityCols == <<"region", "market", "gNodeB", "filedate">>

\* a resampler that takes the first interval of each hour for the hour
\* instead of the mean of its intervals (what C16 rules out)
resample_to_hourly_first(df, cols_in) ==
    LET existing(hour) == SelectSeq(HOUR_MAP[hour], LAMBDA c : HasCol(df, c))
        added == SelectSeq(HourKeys, LAMBDA hour : existing(hour) # <<>>)
        outCols == df.columns \o SelectSeq(added, LAMBDA h : ~HasCol(df, h))
        out == DataFrame(outCols,
                   Map(df.rows, LAMBDA r :
                       [x \in Range(outCols) |->
                           IF x \in Range(added)
                           THEN r[existing(x)[1]]
                           ELSE r[x]]))
        present == SelectSeq(IdentityCols \o HourKeys, LAMBDA c : HasCol(out, c))
    IN  Project(out, present)

\* The loop over HOUR_MAP adds one column per hour that has at least one of
\* its four members in the table.  No hour label ("HH") is a member label
\* ("HH:MM"), so the members found do not depend on the columns the loop
\* has already added, and the loop is the single pass below.
resample_to_hourly(df, cols_in) ==
    LET existing(hour) == SelectSeq(HOUR_MAP[hour], LAMBDA c : HasCol(df, c))
        added == SelectSeq(HourKeys, LAMBDA hour : existing(hour) # <<>>)
        outCols == df.columns \o SelectSeq(added, LAMBDA h : ~HasCol(df, h))
        out == DataFrame(outCols,
                   Map(df.rows, LAMBDA r :
                       [x \in Range(outCols) |->
                           IF x \in Range(added)
                           THEN mean(Cells(r, existing(x)))
                           ELSE r[x]]))
        cols == IdentityCols \o HourKeys
        present == SelectSeq(cols, LAMBDA c : HasCol(out, c))
    IN  Project(out, present)

DailyCols == <<"region", "market", "gNodeB", "filedate", "daily_avg", "risk">>

\* Without interval columns daily_avg is pd.NA in every row, which the
\* per-day mean and the risk masks treat as any other missing value.
resample_to_daily(df, cols_in) ==
    LET existing_intervals == SelectSeq(cols_in, LAMBDA c : HasCol(df, c))
        avg == IF existing_intervals # <<>>
               THEN Assign(df, "daily_avg",
                           LAMBDA r : mean(Cells(r, existing_intervals)))
               ELSE Assign(df, "daily_avg", LAMBDA r : NaN)
        withRisk == IF HasCol(avg, "risk") THEN avg
                    ELSE Assign(avg, "risk", LAMBDA r : Whole(0))
    IN  Project(withRisk, DailyCols)

(***************************************************************************)
(* The union of both tables' identity columns.                             *)
(***************************************************************************)
combined ==
    DataFrame(IdentityCols,
              Project(df_perc, IdentityCols).rows
                  \o Project(df_delay, IdentityCols).rows)

(***************************************************************************)
(* The Daily view: per-day aggregates left-joined onto the dense grid.     *)
(***************************************************************************)
GroupCols == <<"region", "market", "gNodeB", "date">>

SameKeys(a, b, keys) == \A i \in DOMAIN keys : a[keys[i]] = b[keys[i]]

\* groupby(keys, as_index=False): one row per distinct key tuple; rows with
\* a missing key are dropped.  The groups are listed in order of first
\* appearance; the frames are only ever joined onto the grid, which fixes
\* the row order of the result.
GroupKeys(df, keys) ==
    drop_duplicates(
        Map(SelectSeq(df.rows, LAMBDA r : \A i \in DOMAIN keys : notna(r[keys[i]])),
            LAMBDA r : [c \in Range(keys) |-> r[c]]))

Group(df, keys, g) == SelectSeq(df.rows, LAMBDA r : SameKeys(r, g, keys))

\* .groupby(GroupCols, as_index=False).agg({"daily_avg": "mean"})
AggDelayDaily(df) ==
    DataFrame(GroupCols \o <<"daily_avg">>,
        Map(GroupKeys(df, GroupCols), LAMBDA g :
            [c \in Range(GroupCols) \cup {"daily_avg"} |->
                IF c = "daily_avg"
                THEN mean(Map(Group(df, GroupCols, g), LAMBDA r : r["daily_avg"]))
                ELSE g[c]]))

\* .groupby(GroupCols, as_index=False).agg({"daily_avg": "mean", "risk": "sum"})
AggSampleDaily(df) ==
    DataFrame(GroupCols \o <<"daily_avg", "risk">>,
        Map(GroupKeys(df, GroupCols), LAMBDA g :
            [c \in Range(GroupCols) \cup {"daily_avg", "risk"} |->
                CASE c = "daily_avg" ->
                        mean(Map(Group(df, GroupCols, g), LAMBDA r : r["daily_avg"]))
                  [] c = "risk" ->
                        sum(Map(Group(df, GroupCols, g), LAMBDA r : r["risk"]))
                  [] OTHER -> g[c]]))

\* daily["date"] = pd.to_datetime(daily["filedate"]).dt.normalize()
WithDate(daily) ==
    IF HasCol(daily, "filedate")
    THEN Assign(daily, "date", LAMBDA r : normalize(r["filedate"]))
    ELSE Assign(daily, "date", LAMBDA r : NaN)

RECURSIVE Flatten(_)
Flatten(ss) == IF ss = <<>> THEN <<>> ELSE Head(ss) \o Flatten(Tail(ss))

\* a join that keeps only the grid rows with an observation (what C14
\* rules out)
MergeInner(left, right, keys) ==
    DataFrame(left.columns \o SelectSeq(right.columns, LAMBDA c : c \notin Range(keys)),
        Flatten(Map(left.rows, LAMBDA l :
            Map(Group(right, keys, l), LAMBDA r :
                [c \in Range(left.columns) \cup Range(right.columns) |->
                    IF c \in Range(left.columns) THEN l[c] ELSE r[c]]))))

\* left.merge(right, on=keys, how="left")
MergeLeft(left, right, keys) ==
    DataFrame(left.columns \o SelectSeq(right.columns, LAMBDA c : c \notin Range(keys)),
        Flatten(Map(left.rows, LAMBDA l :
            IF \E i \in DOMAIN right.rows : SameKeys(right.rows[i], l, keys)
            THEN Map(Group(right, keys, l), LAMBDA r :
                    [c \in Range(left.columns) \cup Range(right.columns) |->
                        IF c \in Range(left.columns) THEN l[c] ELSE r[c]])
            ELSE << [c \in Range(left.columns) \cup Range(right.columns) |->
                        IF c \in Range(left.columns) THEN l[c] ELSE NaN] >>)))

ComboCols == <<"region", "market", "gNodeB">>

\* combined[ComboCols].dropna().drop_duplicates()
Combos(comb) ==
    drop_duplicates(
        Map(SelectSeq(comb.rows,
                      LAMBDA r : \A i \in DOMAIN ComboCols : notna(r[ComboCols[i]])),
            LAMBDA r : [c \in Range(ComboCols) |-> r[c]]))

Days(df) == {dt_date(ts) : ts \in Range(dropna(Column(df, "filedate")))}

\* pd.to_datetime(combined["filedate"]).max().normalize(); NaT when no
\* row carries a date
LastDate(comb) ==
    IF Days(comb) = {} THEN NaN
    ELSE Ts(CHOOSE d \in Days(comb) : \A e \in Days(comb) : e <= d, 0)

periods == 5

\* pd.date_range(end=last_date, periods=5, freq="D")
Last5Days(last_date) == [i \in 1..periods |-> Ts(last_date.day - periods + i, 0)]

\* combos x dates_df through the constant _key
Grid(combos, last5_days) ==
    DataFrame(ComboCols \o <<"date">>,
        Flatten(Map(combos, LAMBDA cb :
            Map(last5_days, LAMBDA d :
                [c \in Range(ComboCols) \cup {"date"} |->
                    IF c = "date" THEN d ELSE cb[c]]))))

(***************************************************************************)
(* sorted().  Strings are ordered by their place in the lexicographic      *)
(* listing of the names the tables use; days by their ordinal.             *)
(***************************************************************************)
Lexicographic == <<"East", "M1", "M2", "S1", "S2", "S3", "West">>

sorted(S) == SelectSeq(Lexicographic, LAMBDA x : x \in S)

sorted_days(S) == SelectSeq([i \in 1..62 |-> i - 31], LAMBDA d : d \in S)

\* the strings of the non-missing cells of a column
Values(df, c) == {v.s : v \in Unique(dropna(Column(df, c)))}

(***************************************************************************)
(* Cascading filters.                                                      *)
(***************************************************************************)
AllRegions(comb) == sorted(Values(comb, "region"))

\* a market domain that ignores the chosen region (what C4 rules out)
AllMarkets(comb, region) == sorted(Values(comb, "market"))

FilteredMarkets(comb, region) ==
    IF region = "All"
    THEN sorted(Values(comb, "market"))
    ELSE sorted(Values(Where(comb, LAMBDA r : r["region"] = Str(region)), "market"))

FilteredDates(comb, region, market) ==
    sorted_days(
        IF market = "All"
        THEN IF region = "All"
             THEN Days(comb)
             ELSE Days(Where(comb, LAMBDA r : r["region"] = Str(region)))
        ELSE IF region = "All"
             THEN Days(Where(comb, LAMBDA r : r["market"] = Str(market)))
             ELSE Days(Where(comb, LAMBDA r :
                         r["region"] = Str(region) /\ r["market"] = Str(market))))

DateOptions(dates) == Map(dates, DateStr)

FilteredGnodes(comb, region, market, date) ==
    sorted(
        IF date = "All"
        THEN IF market = "All"
             THEN IF region = "All"
                  THEN Values(comb, "gNodeB")
                  ELSE Values(Where(comb, LAMBDA r : r["region"] = Str(region)),
                              "gNodeB")
             ELSE IF region = "All"
                  THEN Values(Where(comb, LAMBDA r : r["market"] = Str(market)),
                              "gNodeB")
                  ELSE Values(Where(comb, LAMBDA r :
                                r["region"] = Str(region) /\ r["market"] = Str(market)),
                              "gNodeB")
        ELSE Values(Where(comb, LAMBDA r :
                /\ (region # "All" => r["region"] = Str(region))
                /\ (market # "All" => r["market"] = Str(market))
                /\ notna(r["filedate"])
                /\ dt_date(r["filedate"]) = dt_date(to_datetime(date))), "gNodeB"))

\* if "All" in selected_gnodes or not selected_gnodes: selected_gnodes = filtered_gnodes
ChosenGnodes(picked, fg) ==
    IF "All" \in picked \/ picked = {} THEN Range(fg) ELSE picked

(***************************************************************************)
(* Risk detection ("Show Problematic Sites Only").                         *)
(***************************************************************************)
RiskDelayThreshold == 20

RiskArrivalThreshold == 100

DailyAssumedArrival == 100

DailyAssumedDelay == 0

file_risk_sites(vm, sdata, icols) ==
    IF vm = "Daily"
    THEN IF HasCol(sdata, "gNodeB")
         THEN Unique(Column(Where(sdata, LAMBDA r :
                lt(fillna(r["daily_avg"], Whole(DailyAssumedArrival)),
                   Whole(RiskArrivalThreshold))), "gNodeB"))
         ELSE {}
    ELSE IF \E i \in DOMAIN icols : HasCol(sdata, icols[i])
         THEN Unique(Column(Where(sdata, LAMBDA r :
                lt(min(Cells(r, SelectSeq(icols, LAMBDA c : HasCol(sdata, c)))),
                   Whole(RiskArrivalThreshold))), "gNodeB"))
         ELSE {}

delay_risk_sites(vm, ddata, icols) ==
    IF vm = "Daily"
    THEN IF HasCol(ddata, "gNodeB")
         THEN Unique(Column(Where(ddata, LAMBDA r :
                gt(fillna(r["daily_avg"], Whole(DailyAssumedDelay)),
                   Whole(RiskDelayThreshold))), "gNodeB"))
         ELSE {}
    ELSE IF \E i \in DOMAIN icols : HasCol(ddata, icols[i])
         THEN Unique(Column(Where(ddata, LAMBDA r :
                gt(max(Cells(r, SelectSeq(icols, LAMBDA c : HasCol(ddata, c)))),
                   Whole(RiskDelayThreshold))), "gNodeB"))
         ELSE {}

\* sorted(list(set(list(file_risk_sites) + list(delay_risk_sites))))
RiskGnodes(vm, sdata, ddata, icols) ==
    sorted({v.s : v \in file_risk_sites(vm, sdata, icols)
                        \cup delay_risk_sites(vm, ddata, icols)})

\* the site set after the "Problematic Sites Only" block
EffectiveGnodes(chosen, chk, risk) ==
    IF chk /\ risk # <<>> THEN Range(risk) ELSE chosen

(***************************************************************************)
(* Filtered tables.  The three row filters commute and are applied in one  *)
(* pass; each is skipped exactly when the code skips it.                   *)
(***************************************************************************)
apply_filters(df, is_daily, region, market, date, gnodes) ==
    Where(df, LAMBDA r :
        /\ (region # "All" /\ HasCol(df, "region") => r["region"] = Str(region))
        /\ (market # "All" /\ HasCol(df, "market") => r["market"] = Str(market))
        /\ (date # "All" /\ is_daily /\ HasCol(df, "date")
                => r["date"] = to_datetime(date))
        /\ (date # "All" /\ ~is_daily /\ HasCol(df, "filedate")
                => notna(r["filedate"])
                   /\ dt_date(r["filedate"]) = dt_date(to_datetime(date)))
        /\ (HasCol(df, "gNodeB") /\ gnodes # {}
                => notna(r["gNodeB"]) /\ r["gNodeB"].s \in gnodes))

(***************************************************************************)
(* The six sections of the page.  Each either renders (its name joins      *)
(* views) or shows a notice.                                               *)
(***************************************************************************)
AnyPresent(icols, df) == \E i \in DOMAIN icols : HasCol(df, icols[i])

\* df.groupby(key)[val].sum().reset_index(): groups in sorted key order,
\* rows with a missing key dropped
GroupSum(df, key, val) ==
    DataFrame(<<key, val>>,
        Map(sorted(Values(df, key)), LAMBDA g :
            [c \in {key, val} |->
                IF c = key THEN Str(g)
                ELSE sum(Column(Where(df, LAMBDA r : r[key] = Str(g)), val))]))

NoFrame == DataFrame(<<>>, <<>>)

\* Sections 1-4.  The Latency Trend's own selectbox (index=0) picks one
\* site of delay_filtered; every choice has rows there, so whether the
\* chart renders does not depend on it.
Rendered(vm, icols, sfilt, dfilt) ==
    (IF ~empty(sfilt) /\ (vm = "Daily" \/ AnyPresent(icols, sfilt))
     THEN {"File Arrival Track"} ELSE {})
    \cup
    (IF ~empty(dfilt) /\ (vm = "Daily" \/ AnyPresent(icols, dfilt))
     THEN {"Delay Heatmap", "Average Delay"} ELSE {})
    \cup
    (IF ~empty(dfilt) /\ Values(dfilt, "gNodeB") # {}
        /\ (vm = "Daily" \/ AnyPresent(icols, dfilt))
     THEN {"Latency Trend"} ELSE {})

Notices(vm, icols, sfilt, dfilt) ==
    (IF empty(sfilt)
     THEN {"No data available for selected filters (File Arrival)."}
     ELSE IF vm # "Daily" /\ ~AnyPresent(icols, sfilt)
          THEN {"No interval columns present for File Arrival view."} ELSE {})
    \cup
    (IF empty(dfilt)
     THEN {"No data available for selected filters (Delay Heatmap).",
           "No data available for Latency Trend.",
           "No data available for Average Delay charts."}
     ELSE IF vm # "Daily" /\ ~AnyPresent(icols, dfilt)
          THEN {"No interval columns present for Delay Heatmap view.",
                "No interval columns to compute average delay."} ELSE {})
    \cup
    (IF ~empty(dfilt) /\ Values(dfilt, "gNodeB") = {}
     THEN {"No gNodeB data present for Latency Trend."}
     ELSE IF ~empty(dfilt) /\ vm # "Daily" /\ ~AnyPresent(icols, dfilt)
          THEN {"No interval data to plot Latency Trend."} ELSE {})

\* Section 5: Problematic Sites Count
Section5(sfilt) ==
    IF empty(sfilt) \/ ~HasCol(sfilt, "risk")
    THEN [views |-> {}, risk_region |-> NoFrame, risk_market |-> NoFrame,
          notices |-> {"No 'risk' column present or no sample data available for Problematic Sites Count."}]
    ELSE [views |-> {"Problematic Sites Count"}, notices |-> {},
          risk_region |-> GroupSum(sfilt, "region", "risk"),
          risk_market |-> GroupSum(sfilt, "market", "risk")]

\* Section 6: Zero-Interval distribution.  In the Daily case the section
\* writes a zero_flag column into sample_filtered itself.
Section6(vm, icols, sfilt) ==
    IF empty(sfilt)
    THEN [views |-> {}, sample_filtered |-> sfilt,
          notices |-> {"No sample data to create Zero-Interval distribution."}]
    ELSE IF vm # "Daily"
         THEN IF AnyPresent(icols, sfilt)
              THEN [views |-> {"Zero-Interval Distribution"}, notices |-> {},
                    sample_filtered |-> sfilt]
              ELSE [views |-> {}, sample_filtered |-> sfilt,
                    notices |-> {"No interval columns available to compute Zero-Interval distribution."}]
         ELSE IF HasCol(sfilt, "daily_avg")
              THEN [views |-> {"Zero-Interval Distribution"}, notices |-> {},
                    sample_filtered |->
                        Assign(sfilt, "zero_flag", LAMBDA r :
                            IF notna(r["daily_avg"]) /\ r["daily_avg"] = Whole(0)
                            THEN Whole(1) ELSE Whole(0))]
              ELSE [views |-> {}, sample_filtered |-> sfilt,
                    notices |-> {"No daily averages to create Zero-Interval pie for Daily view."}]

RiskNotice == "No problematic sites found with the current filters."

(***************************************************************************)
(* One run of the script, top to bottom, with the widgets at the given     *)
(* values.  A script-level variable that a later statement reads is read   *)
(* primed: it is the value this run has just given it.  A selectbox or     *)
(* multiselect whose option list differs from the one it offered in the    *)
(* previous run is a new widget and returns its default; otherwise it      *)
(* returns the value the user left.                                        *)
(***************************************************************************)
ViewModes == {"15-min Intervals", "Hourly", "Daily"}

\* nothing has been computed or rendered
Blank ==
    [filtered_markets |-> <<>>, filtered_dates |-> <<>>, filtered_gnodes |-> <<>>,
     selected_market |-> "All", selected_date |-> "All", gnodes_widget |-> {"All"},
     risk_gnodes |-> <<>>, selected_gnodes |-> {},
     sample_data |-> NoFrame, delay_data |-> NoFrame, interval_cols |-> <<>>,
     sample_filtered |-> NoFrame, delay_filtered |-> NoFrame,
     risk_region |-> NoFrame, risk_market |-> NoFrame,
     views |-> {}, notices |-> {}]

\* date_range(end=NaT) raises: the run stops at line 228, before the
\* sidebar filters are built and before anything is rendered
Raised ==
    /\ filtered_markets' = Blank.filtered_markets
    /\ filtered_dates' = Blank.filtered_dates
    /\ filtered_gnodes' = Blank.filtered_gnodes
    /\ selected_market' = Blank.selected_market
    /\ selected_date' = Blank.selected_date
    /\ gnodes_widget' = Blank.gnodes_widget
    /\ risk_gnodes' = Blank.risk_gnodes
    /\ selected_gnodes' = Blank.selected_gnodes
    /\ sample_data' = Blank.sample_data
    /\ delay_data' = Blank.delay_data
    /\ interval_cols' = Blank.interval_cols
    /\ sample_filtered' = Blank.sample_filtered
    /\ delay_filtered' = Blank.delay_filtered
    /\ risk_region' = Blank.risk_region
    /\ risk_market' = Blank.risk_market
    /\ views' = Blank.views
    /\ notices' = Blank.notices
    /\ error' = TRUE

\* lines 203-239: the views of the chosen granularity
BuildViews(vm, comb, oic, last_date) ==
    IF vm = "Hourly"
    THEN /\ delay_data' = resample_to_hourly(df_delay, oic)
         /\ sample_data' = resample_to_hourly(df_perc, oic)
         /\ interval_cols' = HourKeys
    ELSE IF vm = "Daily"
    THEN \E delay_daily \in
             {AggDelayDaily(WithDate(resample_to_daily(df_delay, oic)))} :
         \E sample_daily \in
             {AggSampleDaily(WithDate(resample_to_daily(df_perc, oic)))} :
         \E last5_days \in {Last5Days(last_date)} :
         \E grid \in {Grid(Combos(comb), last5_days)} :
             /\ sample_data' = MergeLeft(grid, sample_daily, GroupCols)
             /\ delay_data' = MergeLeft(grid, delay_daily, GroupCols)
             /\ interval_cols' = last5_days
    ELSE /\ delay_data' = df_delay
         /\ sample_data' = df_perc
         /\ interval_cols' = oic

\* lines 244-293: the cascading sidebar filters
SidebarFilters(region, marketW, dateW, gnodesW, comb) ==
    /\ filtered_markets' = FilteredMarkets(comb, region)
    /\ selected_market' =
          IF filtered_markets' = filtered_markets THEN marketW ELSE "All"
    /\ filtered_dates' = FilteredDates(comb, region, selected_market')
    /\ selected_date' =
          IF filtered_dates' = filtered_dates THEN dateW ELSE "All"
    /\ filtered_gnodes' =
          FilteredGnodes(comb, region, selected_market', selected_date')
    /\ gnodes_widget' =
          IF filtered_gnodes' = filtered_gnodes THEN gnodesW ELSE {"All"}

\* lines 295-319: the "Problematic Sites Only" block
RiskBlock(vm, chk) ==
    /\ risk_gnodes' =
          IF chk THEN RiskGnodes(vm, sample_data', delay_data', interval_cols')
          ELSE <<>>
    /\ selected_gnodes' =
          EffectiveGnodes(ChosenGnodes(gnodes_widget', filtered_gnodes'),
                          chk, risk_gnodes')

\* lines 339-521: the filtered tables and the six sections
Sections(vm, chk, region) ==
    \E dfilt \in {apply_filters(delay_data', vm = "Daily", region,
                                selected_market', selected_date',
                                selected_gnodes')} :
    \E sfilt \in {apply_filters(sample_data', vm = "Daily", region,
                                selected_market', selected_date',
                                selected_gnodes')} :
    \E s5 \in {Section5(sfilt)} :
    \E s6 \in {Section6(vm, interval_cols', sfilt)} :
        /\ delay_filtered' = dfilt
        /\ sample_filtered' = s6.sample_filtered
        /\ risk_region' = s5.risk_region
        /\ risk_market' = s5.risk_market
        /\ views' = Rendered(vm, interval_cols', sfilt, dfilt)
                        \cup s5.views \cup s6.views
        /\ notices' = Notices(vm, interval_cols', sfilt, dfilt)
                        \cup s5.notices \cup s6.notices
                        \cup (IF chk /\ risk_gnodes' = <<>>
                              THEN {RiskNotice} ELSE {})

Script(vm, chk, region, marketW, dateW, gnodesW) ==
    /\ script_ran' = TRUE
    /\ view_mode' = vm
    /\ risk_prone_checkbox' = chk
    /\ selected_region' = region
    /\ UNCHANGED <<df_perc, df_delay, bench>>
    /\ \E comb \in {combined} :
       \E oic \in {original_interval_cols} :
       \E last_date \in {IF vm = "Daily" THEN LastDate(comb) ELSE NaN} :
           IF vm = "Daily" /\ isna(last_date) THEN Raised
           ELSE /\ BuildViews(vm, comb, oic, last_date)
                /\ SidebarFilters(region, marketW, dateW, gnodesW, comb)
                /\ RiskBlock(vm, chk)
                /\ Sections(vm, chk, region)
                /\ error' = FALSE

\* the session before the script has run: the widgets at their defaults
Fresh ==
    /\ script_ran = FALSE
    /\ view_mode = "15-min Intervals"
    /\ risk_prone_checkbox = FALSE
    /\ selected_region = "All"
    /\ selected_market = Blank.selected_market
    /\ selected_date = Blank.selected_date
    /\ gnodes_widget = Blank.gnodes_widget
    /\ filtered_markets = Blank.filtered_markets
    /\ filtered_dates = Blank.filtered_dates
    /\ filtered_gnodes = Blank.filtered_gnodes
    /\ risk_gnodes = Blank.risk_gnodes
    /\ selected_gnodes = Blank.selected_gnodes
    /\ sample_data = Blank.sample_data
    /\ delay_data = Blank.delay_data
    /\ interval_cols = Blank.interval_cols
    /\ sample_filtered = Blank.sample_filtered
    /\ delay_filtered = Blank.delay_filtered
    /\ risk_region = Blank.risk_region
    /\ risk_market = Blank.risk_market
    /\ views = Blank.views
    /\ notices = Blank.notices
    /\ error = FALSE

(***************************************************************************)
(* Input tables.  The two CSV files hold at most MaxRows rows each, drawn  *)
(* (in file order) from the rows below: two regions, two markets, three    *)
(* sites, a region that is missing, a date that is missing, a date older   *)
(* than the five-day window, a second report of the same site and day,     *)
(* rows whose readings are all missing, and readings on either side of     *)
(* the risk thresholds.  The files carry three of the 96 interval columns  *)
(* (two of hour 00, one of hour 01); a delay file may carry none.          *)
(***************************************************************************)
MaxRows == 2

MkRow(cols, cells) ==
    [c \in Range(cols) |-> cells[CHOOSE i \in DOMAIN cols : cols[i] = c]]

IntervalColumns == <<"00:00", "00:15", "01:00">>

PercColumns == IdentityCols \o IntervalColumns \o <<"risk">>

DelayColumns == IdentityCols \o IntervalColumns

PercRows ==
    << MkRow(PercColumns, <<Str("East"), Str("M1"), Str("S1"), Ts(9, 0),
                            Whole(100), Whole(100), Whole(100), Whole(0)>>),
       MkRow(PercColumns, <<Str("East"), Str("M1"), Str("S1"), Ts(9, 1),
                            NaN, NaN, NaN, Whole(1)>>),
       MkRow(PercColumns, <<Str("West"), Str("M2"), Str("S2"), Ts(8, 0),
                            Whole(100), Whole(50), NaN, Whole(1)>>),
       MkRow(PercColumns, <<NaN, Str("M2"), Str("S3"), Ts(3, 0),
                            Whole(0), NaN, NaN, Whole(2)>>) >>

DelayRows ==
    << MkRow(DelayColumns, <<Str("East"), Str("M1"), Str("S1"), Ts(9, 0),
                             Whole(2), Whole(20), NaN>>),
       MkRow(DelayColumns, <<Str("West"), Str("M2"), Str("S2"), Ts(9, 0),
                             Whole(2), Whole(25), NaN>>),
       MkRow(DelayColumns, <<Str("East"), Str("M2"), Str("S3"), NaN,
                             Whole(25), Whole(25), Whole(25)>>) >>

\* the rows of U at the positions S, in file order
Pick(U, S) ==
    LET F[i \in 0..Len(U)] ==
            IF i = 0 THEN <<>>
            ELSE IF i \in S THEN Append(F[i - 1], U[i]) ELSE F[i - 1]
    IN  F[Len(U)]

Tables(cols, U, n) ==
    {DataFrame(cols, Pick(U, S)) :
        S \in {T \in SUBSET DOMAIN U : Cardinality(T) <= n}}

PercTables == Tables(PercColumns, PercRows, MaxRows)

DelayTables ==
    Tables(DelayColumns, DelayRows, MaxRows)
        \cup {Project(DataFrame(DelayColumns, <<DelayRows[2]>>), IdentityCols)}

Init ==
    /\ df_perc \in PercTables
    /\ df_delay \in DelayTables
    /\ Fresh
    /\ BenchIdle

(***************************************************************************)
(* The first run, then the interactions, each followed by the re-run it    *)
(* triggers.  After a run that raised only the view-mode radio exists.     *)
(* A selection that mixes "All" with sites is read as "All" (line 292),    *)
(* so the multiselect is left at "All" alone, empty, or at a set of sites. *)
(***************************************************************************)
FirstRun ==
    /\ ~script_ran
    /\ Script(view_mode, risk_prone_checkbox, selected_region, selected_market,
              selected_date, gnodes_widget)

SetViewMode(vm) ==
    /\ script_ran
    /\ vm # view_mode
    /\ Script(vm, risk_prone_checkbox, selected_region, selected_market,
              selected_date, gnodes_widget)

ToggleRisk ==
    /\ script_ran /\ ~error
    /\ Script(view_mode, ~risk_prone_checkbox, selected_region, selected_market,
              selected_date, gnodes_widget)

SelectRegion(region) ==
    /\ script_ran /\ ~error
    /\ region # selected_region
    /\ Script(view_mode, risk_prone_checkbox, region, selected_market,
              selected_date, gnodes_widget)

SelectMarket(market) ==
    /\ script_ran /\ ~error
    /\ market # selected_market
    /\ Script(view_mode, risk_prone_checkbox, selected_region, market,
              selected_date, gnodes_widget)

SelectDate(date) ==
    /\ script_ran /\ ~error
    /\ date # selected_date
    /\ Script(view_mode, risk_prone_checkbox, selected_region, selected_market,
              date, gnodes_widget)

SelectGnodes(picked) ==
    /\ script_ran /\ ~error
    /\ picked # gnodes_widget
    /\ Script(view_mode, risk_prone_checkbox, selected_region, selected_market,
              selected_date, picked)

Next ==
    \/ FirstRun
    \/ \E vm \in ViewModes : SetViewMode(vm)
    \/ ToggleRisk
    \/ \E region \in {"All"} \cup Range(AllRegions(combined)) : SelectRegion(region)
    \/ \E market \in {"All"} \cup Range(filtered_markets) : SelectMarket(market)
    \/ \E date \in {"All"} \cup Range(DateOptions(filtered_dates)) : SelectDate(date)
    \/ \E picked \in {{"All"}} \cup SUBSET Range(filtered_gnodes) : SelectGnodes(picked)

Spec == Init /\ [][Next]_vars

(***************************************************************************)
(* Properties of the page.                                                 *)
(***************************************************************************)

\* C1: when the "problematic sites only" toggle is on and the risk
\* detection returns a non-empty set, the site set used to filter both
\* tables is that set intersected with the sites legal under the chosen
\* region, market and date.
C1_RiskSetWithinLegalDomain ==
    (~error /\ risk_prone_checkbox /\ risk_gnodes # <<>>)
        => selected_gnodes = Range(risk_gnodes) \cap Range(filtered_gnodes)

\* C2: when the toggle is on and the risk detection returns the empty set,
\* the notice is shown and no dependent view is rendered.
C2_EmptyRiskSkipsViews ==
    (~error /\ risk_prone_checkbox /\ risk_gnodes = <<>>)
        => RiskNotice \in notices /\ views = {}

\* the rows of the union of both tables' identity columns that match the
\* chosen upstream values ("All" matches every row)
Matching(region, market, date) ==
    {r \in Range(combined.rows) :
        /\ region # "All" => r["region"] = Str(region)
        /\ market # "All" => r["market"] = Str(market)
        /\ date # "All" => r["filedate"] # NaN /\ DateStr(r["filedate"].day) = date}

\* C4: each cascading domain is the set of distinct non-missing values of
\* its dimension among the rows of the union of both tables that match all
\* chosen upstream values; the market domain of a region is a subset of the
\* full market domain.
C4_CascadingDomains ==
    (script_ran /\ ~error) =>
        /\ {Str(m) : m \in Range(filtered_markets)}
              = {r["market"] : r \in Matching(selected_region, "All", "All")} \ {NaN}
        /\ {Ts(d, 0) : d \in Range(filtered_dates)}
              = {normalize(r["filedate"]) :
                    r \in Matching(selected_region, selected_market, "All")} \ {NaN}
        /\ {Str(g) : g \in Range(filtered_gnodes)}
              = {r["gNodeB"] :
                    r \in Matching(selected_region, selected_market, selected_date)}
                  \ {NaN}
        /\ {Str(m) : m \in Range(filtered_markets)}
              \subseteq {r["market"] : r \in Range(combined.rows)}

\* C4 is exercised: a region, a market and a date are chosen, the site
\* domain is not empty and the market domain is narrower than the full one.
C4_Witness ==
    /\ ~error
    /\ selected_region # "All" /\ selected_market # "All" /\ selected_date # "All"
    /\ filtered_gnodes # <<>>
    /\ {Str(m) : m \in Range(filtered_markets)}
          # {r["market"] : r \in Range(combined.rows)} \ {NaN}

\* the rows of a view that belong to one site
SiteRows(df, s) == {r \in Range(df.rows) : r["gNodeB"] = Str(s)}

\* the site has rows in the dense grid, and none of them carries an
\* observed daily average, for arrival or for delay
AllGaps(s) ==
    /\ SiteRows(sample_data, s) # {}
    /\ \A r \in SiteRows(sample_data, s) : r["daily_avg"] = NaN
    /\ \A r \in SiteRows(delay_data, s) : r["daily_avg"] = NaN

\* C7: in the Daily view a site whose grid rows are all gaps, for arrival
\* and for delay, is never in the risky set.
C7_GapSiteNeverRisky ==
    (~error /\ view_mode = "Daily" /\ risk_prone_checkbox)
        => \A s \in Range(Lexicographic) :
               AllGaps(s) => s \notin Range(risk_gnodes)

\* C7 is exercised: the Daily risk detection found a risky site and left
\* out a site of the grid that has no observed daily average.
C7_Witness ==
    /\ ~error /\ view_mode = "Daily" /\ risk_prone_checkbox
    /\ risk_gnodes # <<>>
    /\ \E s \in Range(Lexicographic) : AllGaps(s)

\* the present values of a site over the active interval columns of a view
PresentValues(df, s, icols) ==
    {r[icols[i]] : r \in SiteRows(df, s),
                   i \in {j \in DOMAIN icols : HasCol(df, icols[j])}} \ {NaN}

\* C8: in the 15-minute and the Hourly view a site is risky exactly when
\* one of its present arrival values is below 100 (its minimum is) or one
\* of its present delay values is above 20 (its maximum is).
C8_NonDailyRisk ==
    (~error /\ view_mode # "Daily" /\ risk_prone_checkbox)
        => \A s \in Range(Lexicographic) :
               s \in Range(risk_gnodes)
                 <=> \/ \E v \in PresentValues(sample_data, s, interval_cols) :
                           QLt(v, Whole(100))
                     \/ \E v \in PresentValues(delay_data, s, interval_cols) :
                           QLt(Whole(20), v)

\* C8 is exercised: the 15-minute risk detection found a risky site and left
\* out a site whose largest delay is exactly 20.
C8_Witness ==
    /\ ~error /\ view_mode = "15-min Intervals" /\ risk_prone_checkbox
    /\ risk_gnodes # <<>>
    /\ \E s \in Range(Lexicographic) \ Range(risk_gnodes) :
           Whole(20) \in PresentValues(delay_data, s, interval_cols)

\* the interval columns a raw table carries
IntervalsOf(raw) == SelectSeq(original_interval_cols, LAMBDA c : HasCol(raw, c))

\* every hour value whose members are all missing in the raw row is missing
HourlyMissingSafe(raw, out) ==
    \A i \in DOMAIN raw.rows : \A h \in Range(HourKeys) :
        (/\ HasCol(out, h)
         /\ \A c \in Range(HOUR_MAP[h]) : HasCol(raw, c) => raw.rows[i][c] = NaN)
            => out.rows[i][h] = NaN

\* the raw rows a grid row aggregates
Feeding(raw, g) ==
    {r \in Range(raw.rows) :
        SameKeys(r, g, ComboCols) /\ normalize(r["filedate"]) = g["date"]}

\* every grid row fed only by raw rows without a present interval value
\* (or by no row, or from a table without interval columns) is missing
DailyMissingSafe(raw, out) ==
    \A g \in Range(out.rows) :
        (\A r \in Feeding(raw, g) :
            \A i \in DOMAIN IntervalsOf(raw) : r[IntervalsOf(raw)[i]] = NaN)
            => g["daily_avg"] = NaN

\* C10: an aggregate all of whose inputs are missing is missing, never 0:
\* the hour values of the Hourly view, and the daily averages of the Daily
\* view after the per-day mean and the left join onto the grid.
C10_MissingSafeAggregation ==
    ~error =>
        /\ view_mode = "Hourly" =>
              /\ HourlyMissingSafe(df_perc, sample_data)
              /\ HourlyMissingSafe(df_delay, delay_data)
        /\ view_mode = "Daily" =>
              /\ DailyMissingSafe(df_perc, sample_data)
              /\ DailyMissingSafe(df_delay, delay_data)

\* C10 is exercised: the Daily view of a delay table without interval
\* columns, with a grid row that a raw row feeds.
C10_Witness ==
    /\ ~error /\ view_mode = "Daily"
    /\ IntervalsOf(df_delay) = <<>>
    /\ \E g \in Range(delay_data.rows) :
           Feeding(df_delay, g) # {} /\ g["daily_avg"] = NaN

(***************************************************************************)
(* The two-site scenario: one day (2024-01-01) of region East, market M1,  *)
(* with all 96 interval columns.  S1 arrives in full and is delayed by 2   *)
(* throughout; S2 arrives at 50 in the first 48 intervals, has no reading  *)
(* in the last 48, and is delayed by 25 throughout.                        *)
(***************************************************************************)
AllIntervals == Flatten(Map(HourKeys, LAMBDA hour : HOUR_MAP[hour]))

ScenarioRow(cols, site, first, second, risk) ==
    [c \in Range(cols) |->
        CASE c = "region" -> Str("East")
          [] c = "market" -> Str("M1")
          [] c = "gNodeB" -> Str(site)
          [] c = "filedate" -> Ts(1, 0)
          [] c = "risk" -> risk
          [] OTHER ->
                IF 2 * (CHOOSE i \in DOMAIN AllIntervals : AllIntervals[i] = c)
                        <= Len(AllIntervals)
                THEN first ELSE second]

ScenarioPerc ==
    LET cols == IdentityCols \o AllIntervals \o <<"risk">>
    IN  DataFrame(cols,
            << ScenarioRow(cols, "S1", Whole(100), Whole(100), Whole(0)),
               ScenarioRow(cols, "S2", Whole(50), NaN, Whole(1)) >>)

ScenarioDelay ==
    LET cols == IdentityCols \o AllIntervals
    IN  DataFrame(cols,
            << ScenarioRow(cols, "S1", Whole(2), Whole(2), NaN),
               ScenarioRow(cols, "S2", Whole(25), Whole(25), NaN) >>)

InitE2E ==
    /\ df_perc = ScenarioPerc
    /\ df_delay = ScenarioDelay
    /\ Fresh
    /\ BenchIdle

SpecE2E == InitE2E /\ [][Next]_vars

\* C9: in the two-site scenario, region East, the Daily view and the
\* "problematic sites only" toggle give the effective site set {S2} and a
\* region-level risk sum of 1 for East.
C9_ScenarioRiskySite ==
    (~error /\ selected_region = "East" /\ view_mode = "Daily"
        /\ risk_prone_checkbox)
        => /\ selected_gnodes = {"S2"}
           /\ risk_region.rows = << [region |-> Str("East"), risk |-> Whole(1)] >>

\* C9 is exercised: East, Daily and the toggle are chosen with every date,
\* and the filtered arrival table holds the five grid days of one site.
C9_Witness ==
    /\ ~error /\ selected_region = "East" /\ view_mode = "Daily"
    /\ risk_prone_checkbox
    /\ selected_date = "All"
    /\ Len(sample_filtered.rows) = periods
    /\ risk_region.rows # <<>>

(***************************************************************************)
(* normalize_cols.  Headers are taken apart character by character, so a   *)
(* header is a sequence of one-character strings here; the rows of a raw   *)
(* table are positional (one cell per header).                             *)
(***************************************************************************)
ascii_uppercase ==
    <<"A", "B", "C", "D", "E", "F", "G", "H", "I", "J", "K", "L", "M",
      "N", "O", "P", "Q", "R", "S", "T", "U", "V", "W", "X", "Y", "Z">>

ascii_lowercase ==
    <<"a", "b", "c", "d", "e", "f", "g", "h", "i", "j", "k", "l", "m",
      "n", "o", "p", "q", "r", "s", "t", "u", "v", "w", "x", "y", "z">>

\* str.strip(): the text between its first and its last non-blank character
strip(t) ==
    LET inked == {i \in DOMAIN t : t[i] # " "}
    IN  IF inked = {} THEN <<>>
        ELSE SubSeq(t, CHOOSE i \in inked : \A j \in inked : i <= j,
                       CHOOSE i \in inked : \A j \in inked : j <= i)

\* str.lower()
lower(t) ==
    [i \in DOMAIN t |->
        IF \E n \in DOMAIN ascii_uppercase : ascii_uppercase[n] = t[i]
        THEN ascii_lowercase[CHOOSE n \in DOMAIN ascii_uppercase :
                                 ascii_uppercase[n] = t[i]]
        ELSE t[i]]

\* str.replace(old, new) for one-character old and new
replace(t, old, new) == [i \in DOMAIN t |-> IF t[i] = old THEN new ELSE t[i]]

\* c.strip().lower().replace("/", "_").replace(" ", "_")
NormalizeHeader(c) == replace(replace(lower(strip(c)), "/", "_"), " ", "_")

h_filedate == <<"f", "i", "l", "e", "d", "a", "t", "e">>

h_enodeb_gnodeb ==
    <<"e", "n", "o", "d", "e", "b", "_", "g", "n", "o", "d", "e", "b">>

h_gNodeB == <<"g", "N", "o", "d", "e", "B">>

h_market == <<"m", "a", "r", "k", "e", "t">>

\* pd.to_datetime(column, errors="coerce"), cell by cell: a timestamp
\* stays, a text that names a day is parsed, anything else becomes NaT
to_datetime_coerce(v) ==
    IF v.k = "ts" THEN v
    ELSE IF v.k = "str" /\ \E day \in DOMAIN DateText : DateText[day] = v.s
         THEN to_datetime(v.s)
         ELSE NaN

\* Series.astype(str), cell by cell.  A whole number of one digit prints as
\* its digit and a missing value as "nan".
astype_str(v) ==
    CASE v.k = "str" -> v
      [] v.k = "num" -> Str(Digit[v.n + 1])
      [] OTHER -> Str("nan")

\* df[c] = F(df[c]) on a positional table
Convert(df, c, F(_)) ==
    DataFrame(df.columns,
        Map(df.rows, LAMBDA r :
            [i \in DOMAIN r |-> IF df.columns[i] = c THEN F(r[i]) ELSE r[i]]))

normalize_cols(df) ==
    LET lowered == DataFrame(Map(df.columns, NormalizeHeader), df.rows)
        dated == IF HasCol(lowered, h_filedate)
                 THEN Convert(lowered, h_filedate, to_datetime_coerce)
                 ELSE lowered
        renamed == DataFrame(
                       Map(dated.columns, LAMBDA c :
                           IF c = h_enodeb_gnodeb THEN h_gNodeB ELSE c),
                       dated.rows)
    IN  IF HasCol(renamed, h_market)
        THEN Convert(renamed, h_market, astype_str)
        ELSE DataFrame(Append(renamed.columns, h_market),
                       Map(renamed.rows, LAMBDA r : Append(r, Str(""))))

(***************************************************************************)
(* Raw tables for the normaliser: one row under a region header, with or   *)
(* without a site, a market and a report-date column, under the header     *)
(* spellings below; the market cell is a text, a number or missing, the    *)
(* date cell a day, a text that names no day, or missing.                  *)
(***************************************************************************)
Absent == [h |-> <<>>, c |-> <<>>]

SiteHeaders ==
    { <<"e", "N", "o", "d", "e", "B", "/", "g", "N", "o", "d", "e", "B">>,
      <<" ", "E", "N", "O", "D", "E", "B", " ", "G", "N", "O", "D", "E", "B", " ">>,
      <<"g", "N", "o", "d", "e", "B">> }

SiteColumns == {[h |-> <<hd>>, c |-> <<Str("S1")>>] : hd \in SiteHeaders} \cup {Absent}

MarketColumns ==
    {[h |-> << <<"M", "a", "r", "k", "e", "t">> >>, c |-> <<v>>] :
        v \in {Str("M1"), Whole(7), NaN}} \cup {Absent}

DateColumns ==
    {[h |-> << <<"F", "i", "l", "e", "D", "a", "t", "e", " ">> >>, c |-> <<v>>] :
        v \in {Str("2024-01-09"), Str("n/a"), NaN}} \cup {Absent}

RawTables ==
    {DataFrame(<< <<"R", "e", "g", "i", "o", "n">> >> \o site.h \o market.h \o date.h,
               << <<Str("East")>> \o site.c \o market.c \o date.c >>) :
        site \in SiteColumns, market \in MarketColumns, date \in DateColumns}

\* the page has not been loaded
NotLoaded ==
    /\ df_perc = NoFrame
    /\ df_delay = NoFrame
    /\ Fresh

InitNorm ==
    /\ NotLoaded
    /\ df_raw \in RawTables
    /\ df_normalized = Unset /\ df_renormalized = Unset
    /\ pivot = <<>> /\ excel = Unset /\ styled = Unset
    /\ selected_enode = Unset /\ pie_data = Unset

\* df = normalize_cols(df)
Normalize ==
    /\ df_normalized = Unset
    /\ df_normalized' = normalize_cols(df_raw)
    /\ UNCHANGED <<df_perc, df_delay, widgets, outputs, df_raw, df_renormalized,
                   pivot, excel, styled, selected_enode, pie_data>>

\* normalize_cols applied to its own result
NormalizeAgain ==
    /\ df_normalized # Unset
    /\ df_renormalized = Unset
    /\ df_renormalized' = normalize_cols(df_normalized)
    /\ UNCHANGED <<df_perc, df_delay, widgets, outputs, df_raw, df_normalized,
                   pivot, excel, styled, selected_enode, pie_data>>

NextNorm == Normalize \/ NormalizeAgain

SpecNorm == InitNorm /\ [][NextNorm]_vars

\* C3: normalising a normalised table changes nothing: the headers (the
\* canonical site column name among them), the column types and the values
\* of the second result are those of the first.
C3_NormalizeIdempotent ==
    df_renormalized # Unset => df_renormalized = df_normalized

\* the two spellings of the site column, compared without regard to casing,
\* surrounding blanks, and "/" or " " against "_"
AcceptedSpelling(c) ==
    NormalizeHeader(c) \in {h_enodeb_gnodeb, NormalizeHeader(h_gNodeB)}

\* C11: a raw table whose site column is headed by either accepted spelling
\* comes out of normalize_cols with exactly one site column, and that column
\* is named gNodeB, the name combined, the resamplers and the filters read.
C11_SiteColumnCanonical ==
    (df_normalized # Unset
        /\ \E i \in DOMAIN df_raw.columns : AcceptedSpelling(df_raw.columns[i]))
    => Cardinality({i \in DOMAIN df_normalized.columns :
                        df_normalized.columns[i] = h_gNodeB}) = 1

(***************************************************************************)
(* The two colourings of a pivot matrix: the spreadsheet export and the    *)
(* on-screen styler.  A cell is a number, NaN, None or a text; the texts   *)
(* of the family below are no numerals, so float() raises on them as it    *)
(* does on None.  A cell format is the fill and font colour the export     *)
(* sets ("none" where it sets nothing); a CSS value is the pair of         *)
(* declarations the styler returns ("" for a declaration it leaves out).   *)
(***************************************************************************)
None == [k |-> "none"]

Modes == {"arrival", "delay"}

\* float(cell.value) raises
float_raises(v) == v.k \in {"none", "str"}

\* lines 116-133: the fill and font colour chosen for val = float(cell.value)
ExcelBand(val, mode) ==
    IF mode = "arrival"
    THEN IF val = Whole(100) THEN [fill |-> "08306b", font |-> "FFFFFF"]
         ELSE IF ge(val, Whole(75)) THEN [fill |-> "1f78ff", font |-> "FFFFFF"]
         ELSE IF ge(val, Whole(50)) THEN [fill |-> "73b3ff", font |-> "000000"]
         ELSE IF ge(val, Whole(25)) THEN [fill |-> "d0e7ff", font |-> "000000"]
         ELSE [fill |-> "FF0000", font |-> "FFFFFF"]
    ELSE IF le(val, Whole(5)) THEN [fill |-> "d0e7ff", font |-> "000000"]
         ELSE IF le(val, Whole(10)) THEN [fill |-> "73b3ff", font |-> "000000"]
         ELSE IF le(val, Whole(15)) THEN [fill |-> "1f78ff", font |-> "FFFFFF"]
         ELSE [fill |-> "08306b", font |-> "FFFFFF"]

\* the format of one data cell after the export's loop over the sheet
ExcelCell(v, mode) ==
    IF float_raises(v) THEN [fill |-> "none", font |-> "none"]
    ELSE ExcelBand(v, mode)

df_to_excel_with_colors(cells, mode) ==
    [mode |-> mode, cells |-> Map(cells, LAMBDA v : ExcelCell(v, mode))]

\* pd.isna(v)
pd_isna(v) == v = NaN \/ v = None

style_func(v, mode) ==
    IF pd_isna(v) THEN [background |-> "white", color |-> "black"]
    ELSE IF float_raises(v) THEN [background |-> "", color |-> ""]
    ELSE IF mode = "arrival"
    THEN IF v = Whole(100) THEN [background |-> "#08306b", color |-> "white"]
         ELSE IF ge(v, Whole(75)) THEN [background |-> "#1f78ff", color |-> "white"]
         ELSE IF ge(v, Whole(50)) THEN [background |-> "#73b3ff", color |-> ""]
         ELSE IF ge(v, Whole(25)) THEN [background |-> "#d0e7ff", color |-> ""]
         ELSE [background |-> "#FF0000", color |-> "white"]
    ELSE IF le(v, Whole(5)) THEN [background |-> "#d0e7ff", color |-> ""]
         ELSE IF le(v, Whole(10)) THEN [background |-> "#73b3ff", color |-> ""]
         ELSE IF le(v, Whole(15)) THEN [background |-> "#1f78ff", color |-> "white"]
         ELSE [background |-> "#08306b", color |-> "white"]

\* df.style.applymap(style_func)
apply_heatmap_style(cells, mode) ==
    [mode |-> mode, cells |-> Map(cells, LAMBDA v : style_func(v, mode))]

(***************************************************************************)
(* Pivot matrices of at most MaxCells cells.  The numbers are 0, -1 and,   *)
(* for every threshold of either mode, the threshold itself and the values *)
(* one thousandth below and above it.                                      *)
(***************************************************************************)
MaxCells == 2

Thresholds == {5, 10, 15, 25, 50, 75, 100}

PivotCells ==
    {Num(1000 * t + e, 1000) : t \in Thresholds, e \in {-1, 0, 1}}
        \cup {Whole(0), Whole(-1), NaN, None, Str("n/a"), Str("")}

Pivots == UNION {[1..n -> PivotCells] : n \in 1..MaxCells}

InitColor ==
    /\ NotLoaded
    /\ df_raw = Unset /\ df_normalized = Unset /\ df_renormalized = Unset
    /\ pivot \in Pivots
    /\ excel = Unset /\ styled = Unset
    /\ selected_enode = Unset /\ pie_data = Unset

\* the download button: the pivot is exported in the given mode
Export(mode) ==
    /\ excel' = df_to_excel_with_colors(pivot, mode)
    /\ UNCHANGED <<df_perc, df_delay, widgets, outputs, df_raw, df_normalized,
                   df_renormalized, pivot, styled, selected_enode, pie_data>>

\* the page: the pivot is styled in the given mode
Style(mode) ==
    /\ styled' = apply_heatmap_style(pivot, mode)
    /\ UNCHANGED <<df_perc, df_delay, widgets, outputs, df_raw, df_normalized,
                   df_renormalized, pivot, excel, selected_enode, pie_data>>

NextColor ==
    \/ \E mode \in Modes : Export(mode)
    \/ \E mode \in Modes : Style(mode)

SpecColor == InitColor /\ [][NextColor]_vars

\* C5: the export gives no fill to a data cell whose value is missing
\* (NaN, None) or not a number, in either mode.
C5_NoFillUnlessNumeric ==
    excel # Unset =>
        \A i \in DOMAIN pivot :
            pivot[i].k # "num" => excel.cells[i].fill = "none"

\* the documented step function of a present number
DocumentedBand(v, mode) ==
    IF mode = "arrival"
    THEN IF v = Whole(100) THEN "darkest blue"
         ELSE IF ~QLt(v, Whole(75)) THEN "blue"
         ELSE IF ~QLt(v, Whole(50)) THEN "mid blue"
         ELSE IF ~QLt(v, Whole(25)) THEN "light blue"
         ELSE "red"
    ELSE IF ~QLt(Whole(5), v) THEN "light blue"
         ELSE IF ~QLt(Whole(10), v) THEN "mid blue"
         ELSE IF ~QLt(Whole(15), v) THEN "blue"
         ELSE "darkest blue"

\* the colour of each documented band
Palette ==
    [b \in {"darkest blue", "blue", "mid blue", "light blue", "red"} |->
        CASE b = "darkest blue" -> "08306b"
          [] b = "blue" -> "1f78ff"
          [] b = "mid blue" -> "73b3ff"
          [] b = "light blue" -> "d0e7ff"
          [] OTHER -> "FF0000"]

\* C6: for every present number and either mode, the export's fill is the
\* styler's background colour, and both are the colour of the documented
\* band: arrival ==100, >=75, >=50, >=25, <25; delay <=5, <=10, <=15, >15.
C6_ColourParity ==
    (excel # Unset /\ styled # Unset) =>
        (excel.mode = styled.mode =>
            \A i \in DOMAIN pivot :
                pivot[i].k = "num" =>
                    /\ styled.cells[i].background = "#" \o excel.cells[i].fill
                    /\ excel.cells[i].fill
                          = Palette[DocumentedBand(pivot[i], excel.mode)])

\* C6 is exercised: a matrix holding a threshold and the value just under
\* it has been exported and styled in the same mode.
C6_Witness ==
    /\ excel # Unset /\ styled # Unset
    /\ excel.mode = "arrival" /\ styled.mode = "arrival"
    /\ pivot = <<Num(24999, 1000), Whole(25)>>
    /\ excel.cells[1].fill # excel.cells[2].fill


(***************************************************************************)
(* The older script variant, new.py.  It reads the same two files without  *)
(* normalising the headers (the site column is enodeb_gnodeb), offers four *)
(* single-choice selectboxes whose options come from the delay table, and  *)
(* ends with the market pies.  Its filtered_delay and filtered_perc are    *)
(* held in delay_filtered and sample_filtered.  The tables below hold at   *)
(* most MaxRows rows each and at least one: every row is dated and has a   *)
(* region, so that the selectboxes and the date inputs have values.        *)
(***************************************************************************)
NewIdentityCols == <<"region", "market", "enodeb_gnodeb", "filedate">>

NewPercTables ==
    LET cols == NewIdentityCols \o IntervalColumns \o <<"risk">>
        U == << MkRow(cols, <<Str("East"), Str("M1"), Str("S1"), Ts(9, 0),
                              Whole(100), Whole(100), Whole(100), Whole(0)>>),
                MkRow(cols, <<Str("East"), Str("M1"), Str("S2"), Ts(9, 0),
                              Whole(0), NaN, Whole(50), Whole(1)>>),
                MkRow(cols, <<Str("West"), Str("M2"), Str("S3"), Ts(8, 0),
                              Whole(100), Whole(50), NaN, Whole(2)>>) >>
    IN  Tables(cols, U, MaxRows) \ {DataFrame(cols, <<>>)}

NewDelayTables ==
    LET cols == NewIdentityCols \o IntervalColumns
        U == << MkRow(cols, <<Str("East"), Str("M1"), Str("S1"), Ts(9, 0),
                              Whole(0), Whole(20), NaN>>),
                MkRow(cols, <<Str("East"), Str("M1"), Str("S2"), Ts(9, 0),
                              Whole(2), Whole(0), Whole(0)>>),
                MkRow(cols, <<Str("West"), Str("M2"), Str("S3"), Ts(8, 0),
                              Whole(25), Whole(25), Whole(25)>>) >>
    IN  Tables(cols, U, MaxRows) \ {DataFrame(cols, <<>>)}

\* st.selectbox(label, options): one of the options, None when there is none
selectbox(options) == IF options = {} THEN {None} ELSE options

\* lines 46-54: the four equalities of the final filter
new_filter(df, region, market, date, enode) ==
    Where(df, LAMBDA r :
        /\ r["region"] = region
        /\ r["market"] = market
        /\ date # None /\ notna(r["filedate"])
        /\ dt_date(r["filedate"]) = dt_date(date)
        /\ r["enodeb_gnodeb"] = enode)

\* line 61: the columns whose label holds a ":"
colon_cols(df) == SelectSeq(df.columns, LAMBDA c : c \in Range(AllIntervals))

\* line 135, one row: (df_delay[interval_cols] == 0).sum(axis=1)
zero_intervals(r, cols) ==
    Whole(Cardinality({i \in DOMAIN cols : r[cols[i]] = Whole(0)}))

\* lines 138-143: per market, the sum of Zero Intervals, the mean of every
\* interval column, and Avg Delay, the mean of those means
PieData(df, cols) ==
    DataFrame(<<"market", "Zero Intervals">> \o cols \o <<"Avg Delay">>,
        Map(sorted(Values(df, "market")), LAMBDA g :
            LET rows == Where(df, LAMBDA r : r["market"] = Str(g))
            IN  [c \in {"market", "Zero Intervals", "Avg Delay"} \cup Range(cols) |->
                    CASE c = "market" -> Str(g)
                      [] c = "Zero Intervals" -> sum(Column(rows, c))
                      [] c = "Avg Delay" ->
                            mean(Map(cols, LAMBDA x : mean(Column(rows, x))))
                      [] OTHER -> mean(Column(rows, c))]))

\* One run of new.py with the four selectboxes at the given values.  Each
\* selectbox offers what the delay table holds under the choices above it.
NewScript(region, market, date, enode) ==
    /\ region \in selectbox(Unique(Column(df_delay, "region")))
    /\ market \in selectbox(Unique(Column(
                    Where(df_delay, LAMBDA r : r["region"] = region), "market")))
    /\ date \in selectbox({normalize(v) : v \in Unique(Column(
                    Where(df_delay, LAMBDA r : /\ r["region"] = region
                                               /\ r["market"] = market),
                    "filedate"))})
    /\ enode \in selectbox(Unique(Column(
                    Where(df_delay, LAMBDA r :
                        /\ r["region"] = region /\ r["market"] = market
                        /\ date # None
                        /\ dt_date(r["filedate"]) = dt_date(date)),
                    "enodeb_gnodeb")))
    /\ script_ran' = TRUE
    /\ selected_region' = region /\ selected_market' = market
    /\ selected_date' = date /\ selected_enode' = enode
    /\ delay_filtered' = new_filter(df_delay, region, market, date, enode)
    /\ sample_filtered' = new_filter(df_perc, region, market, date, enode)
    /\ interval_cols' = colon_cols(delay_filtered')
    /\ risk_region' = GroupSum(df_perc, "region", "risk")
    /\ risk_market' = GroupSum(df_perc, "market", "risk")
    /\ df_delay' = Assign(df_delay, "Zero Intervals",
                          LAMBDA r : zero_intervals(r, interval_cols'))
    /\ pie_data' = PieData(df_delay', interval_cols')
    /\ UNCHANGED <<df_perc, view_mode, risk_prone_checkbox, gnodes_widget,
                   filtered_markets, filtered_dates, filtered_gnodes,
                   risk_gnodes, selected_gnodes, sample_data, delay_data,
                   views, notices, error, df_raw, df_normalized,
                   df_renormalized, pivot, excel, styled>>

\* the two files as load_data returned them, before the first run
InitNew ==
    /\ df_perc \in NewPercTables
    /\ df_delay \in NewDelayTables
    /\ Fresh
    /\ BenchIdle

NextNew ==
    \E region, market, enode \in {Str(x) : x \in Range(Lexicographic)} \cup {None} :
        \E date \in {Ts(d, 0) : d \in Days(df_delay)} \cup {None} :
            NewScript(region, market, date, enode)

SpecNew == InitNew /\ [][NextNew]_vars

\* C12: whatever the step, in either script variant, the base arrival and
\* delay tables come out of it with the columns and cells they had after
\* loading: no column is added or removed and no cell changes.
C12_BaseTablesImmutable ==
    [][df_perc' = df_perc /\ df_delay' = df_delay]_vars

(***************************************************************************)
(* Frame conditions of the six sections of dashboard.py.                   *)
(***************************************************************************)
\* what apply_filters returned for a view of the last run
AsFiltered(view) ==
    apply_filters(view, view_mode = "Daily", selected_region, selected_market,
                  selected_date, selected_gnodes)

\* C13: at the end of a run, after the pivots, the grouped aggregates and the
\* zero-interval distribution have been computed, the filtered arrival and
\* delay tables have the columns and values apply_filters gave them.
C13_ViewsLeaveFilteredTables ==
    (script_ran /\ ~error) =>
        /\ sample_filtered = AsFiltered(sample_data)
        /\ delay_filtered = AsFiltered(delay_data)

(***************************************************************************)
(* The dense grid of the Daily view.                                       *)
(***************************************************************************)
\* the (region, market, site) triples a table reports with none of the three
\* missing
Triples(df) ==
    {[c \in Range(ComboCols) |-> r[c]] :
        r \in {x \in Range(df.rows) : \A c \in Range(ComboCols) : notna(x[c])}}

\* the five consecutive days ending at the latest day either table reports
Window ==
    LET seen == Days(df_perc) \cup Days(df_delay)
        last == CHOOSE d \in seen : \A e \in seen : e <= d
    IN  {last - k : k \in 0..4}

\* the table reports the triple on the day
Reported(df, t, d) ==
    \E r \in Range(df.rows) :
        /\ \A c \in Range(ComboCols) : r[c] = t[c]
        /\ notna(r["filedate"]) /\ dt_date(r["filedate"]) = d

\* the rows of a Daily view for a triple and a day
GridRows(view, t, d) ==
    {i \in DOMAIN view.rows :
        /\ \A c \in Range(ComboCols) : view.rows[i][c] = t[c]
        /\ view.rows[i]["date"] = Ts(d, 0)}

Dense(view, base) ==
    LET triples == Triples(df_perc) \cup Triples(df_delay)
    IN  /\ Len(view.rows) = Cardinality(triples) * Cardinality(Window)
        /\ \A t \in triples : \A d \in Window :
              /\ Cardinality(GridRows(view, t, d)) = 1
              /\ ~Reported(base, t, d) =>
                    \A i \in GridRows(view, t, d) : isna(view.rows[i]["daily_avg"])

\* C14, as amended: in a Daily run that found a date, the arrival and the
\* delay view each hold exactly one row for every (region, market, site)
\* triple that either table reports with none of the three missing and for
\* every one of the five consecutive days ending at the latest day of either
\* table, and no other row; where the view's own table reports nothing for
\* the triple on the day, daily_avg is missing, not zero.
C14_DailyDenseGrid ==
    (script_ran /\ ~error /\ view_mode = "Daily") =>
        /\ Dense(sample_data, df_perc)
        /\ Dense(delay_data, df_delay)

\* C14, as written: the same with "site" read as the site identifier alone:
\* every identifier either table reports has exactly one row per day of the
\* window in both views.
C14_EverySiteOncePerDay ==
    (script_ran /\ ~error /\ view_mode = "Daily") =>
        \A view \in {sample_data, delay_data} :
            \A site \in Values(df_perc, "gNodeB") \cup Values(df_delay, "gNodeB") :
                \A d \in Window :
                    Cardinality({i \in DOMAIN view.rows :
                                    /\ view.rows[i]["gNodeB"] = Str(site)
                                    /\ view.rows[i]["date"] = Ts(d, 0)}) = 1

\* C14 is exercised: a Daily run over two triples, where the arrival view
\* holds a day with an average and a day without a report.
C14_Witness ==
    /\ script_ran /\ ~error /\ view_mode = "Daily"
    /\ Cardinality(Triples(df_perc) \cup Triples(df_delay)) = 2
    /\ \E i, j \in DOMAIN sample_data.rows :
          /\ notna(sample_data.rows[i]["daily_avg"])
          /\ isna(sample_data.rows[j]["daily_avg"])
          /\ sample_data.rows[i]["gNodeB"] = sample_data.rows[j]["gNodeB"]

(***************************************************************************)
(* The risk aggregates of section 5.                                       *)
(***************************************************************************)
\* agg holds one row per value of key in the filtered arrival table, and
\* the row's risk is the sum of risk over the filtered rows of that value
SumsRiskBy(agg, key) ==
    /\ {r[key] : r \in Range(agg.rows)}
          = {Str(v) : v \in Values(sample_filtered, key)}
    /\ \A r \in Range(agg.rows) :
          r["risk"] = sum(Column(Where(sample_filtered,
                                       LAMBDA x : x[key] = r[key]), "risk"))

\* C15: in every view mode, a run whose filtered arrival table is not empty
\* renders the Problematic Sites Count, and the aggregates by region and by
\* market hold, for each group, the sum of risk over the filtered arrival
\* rows of the group.
C15_RiskAggregates ==
    (script_ran /\ ~error /\ ~empty(sample_filtered)) =>
        /\ "Problematic Sites Count" \in views
        /\ SumsRiskBy(risk_region, "region")
        /\ SumsRiskBy(risk_market, "market")

(***************************************************************************)
(* The Date selectbox against the filtered tables.                         *)
(***************************************************************************)
\* C17: in every view mode, with the toggle off and the sites left at "All",
\* a run under a concrete date of the Date selectbox leaves at least one row
\* in the filtered arrival table or in the filtered delay table.
C17_OfferedDateHasRows ==
    (script_ran /\ ~error /\ ~risk_prone_checkbox /\ gnodes_widget = {"All"}
        /\ selected_date # "All")
    => (~empty(sample_filtered) \/ ~empty(delay_filtered))

(***************************************************************************)
(* Resampling of complete days.  Both files carry all 96 interval columns  *)
(* and one row each, of one day; the readings of a row follow one of the   *)
(* series below: a ramp over the day, a pattern that varies only within    *)
(* the hour, a single spike, and the ramp with one reading missing.  The   *)
(* means are exact rationals, as everywhere in this module: the rounding   *)
(* of float64 sums and quotients is not represented.                       *)
(***************************************************************************)
Series ==
    [ramp    |-> [i \in DOMAIN AllIntervals |-> Whole(i - 1)],
     quarter |-> [i \in DOMAIN AllIntervals |-> Whole(10 * ((i - 1) % 4))],
     spike   |-> [i \in DOMAIN AllIntervals |->
                     IF i = 2 THEN Whole(1000) ELSE Whole(0)],
     gap     |-> [i \in DOMAIN AllIntervals |->
                     IF i = 2 THEN NaN ELSE Whole(i - 1)]]

FullRow(cols, site, readings, risk) ==
    [c \in Range(cols) |->
        CASE c = "region" -> Str("East")
          [] c = "market" -> Str("M1")
          [] c = "gNodeB" -> Str(site)
          [] c = "filedate" -> Ts(1, 0)
          [] c = "risk" -> risk
          [] OTHER ->
                readings[CHOOSE i \in DOMAIN AllIntervals : AllIntervals[i] = c]]

FullPercTables ==
    LET cols == IdentityCols \o AllIntervals \o <<"risk">>
    IN  {DataFrame(cols, << FullRow(cols, "S1", Series[k], Whole(0)) >>) :
            k \in {"ramp", "quarter", "gap"}}

FullDelayTables ==
    LET cols == IdentityCols \o AllIntervals
    IN  {DataFrame(cols, << FullRow(cols, "S2", Series[k], NaN) >>) :
            k \in {"spike", "quarter", "gap"}}

InitFull ==
    /\ df_perc \in FullPercTables
    /\ df_delay \in FullDelayTables
    /\ Fresh
    /\ BenchIdle

SpecFull == InitFull /\ [][Next]_vars

\* every one of the 96 interval values of the row is a number
Complete(r) == \A c \in Range(AllIntervals) : r[c].k = "num"

\* for every complete row of the base table, the mean of the 24 hour values
\* of its row in the Hourly view is the daily_avg resample_to_daily gives it
Conserved(base, hourly) ==
    \A i \in DOMAIN base.rows :
        Complete(base.rows[i]) =>
            mean(Cells(hourly.rows[i], HourKeys))
                = resample_to_daily(base, original_interval_cols).rows[i]["daily_avg"]

\* C16: for a row with all 96 interval values present and numeric, the
\* daily_avg of resample_to_daily is the arithmetic mean of the 24 hour
\* values resample_to_hourly computed for the row (read off the Hourly
\* views of a run), in the arrival and in the delay table.
C16_ResamplingConservation ==
    (script_ran /\ ~error /\ view_mode = "Hourly") =>
        /\ Conserved(df_perc, sample_data)
        /\ Conserved(df_delay, delay_data)

\* C16 is exercised: an Hourly run over a complete arrival row whose
\* readings differ within the hour and whose hour values differ over the
\* day, and a complete delay row with a spike in its first hour.
C16_Witness ==
    /\ script_ran /\ ~error /\ view_mode = "Hourly"
    /\ Complete(df_perc.rows[1]) /\ Complete(df_delay.rows[1])
    /\ df_perc.rows[1]["00:00"] # df_perc.rows[1]["00:15"]
    /\ sample_data.rows[1]["00"] # sample_data.rows[1]["23"]
    /\ delay_data.rows[1]["00"] = Whole(250)
    /\ delay_data.rows[1]["01"] = Whole(0)

=============================================================================
